---- MODULE Spec2Model ----
(***************************************************************************)
(* Authentication and session-security subsystem of the MESSS backend:    *)
(* the Redis sliding-window rate limiter, the account lockout state, the  *)
(* login pipeline and the session lifecycle, as state machines.           *)
(*                                                                         *)
(* Time is the wall clock in whole seconds (the code reads                 *)
(* int(datetime.now().timestamp()) and datetime.utcnow()).  The clock only *)
(* moves forward, and it moves between a chosen set of instants so that    *)
(* same-second calls, distinct seconds inside one window and the window    *)
(* and lockout boundaries all occur.                                       *)
(***************************************************************************)
EXTENDS Integers, Sequences, FiniteSets, TLC

VARIABLES
    now,        \* wall clock, seconds
    rl,         \* Redis sorted sets: key -> set of scores (member = str(score))
    rlExpire,   \* Redis TTL: key -> second at which the key expires
    calls,      \* observer: per key and second, the check_rate_limit calls
                \* answered allowed (ok) and rejected (no), and the
                \* increment_failed_attempt calls (inc)
    epoch,      \* observer: per key, the second of the last check_rate_limit
                \* call that found the key with no entry in its window
    nops,       \* observer: rate limiter operations made so far
    last,       \* observer: the last operation, its inputs and what it returned
    users,      \* table user: username -> account row
    sessions,   \* table usersession: the set of rows
    audit,      \* Redis list security_events, newest first
    procs,      \* requests in flight: process -> its position and locals
    twin        \* a second deployment fed the same login requests, in whose
                \* database the probed username is not registered

vars == <<now, rl, rlExpire, calls, epoch, nops, last, users, sessions, audit, procs, twin>>

NULL == -1

(***************************************************************************)
(* Bounds of the model.                                                    *)
(***************************************************************************)
MaxCalls == 6
MaxSessions == 3
MaxEvents == 2
MaxAuthCalls == 2
MaxPriorFailures == 5
MaxScenarioAttempts == 6
MaxProbes == 5
MaxUseSessions == 2
MaxUseEvents == 1
MaxOps == 2
MaxAuditWrites == 2

(***************************************************************************)
(* Program constants.                                                      *)
(***************************************************************************)
MaxAttempts == 5
WindowSeconds == 900

Keys == {"login:ip1", "login:ip2"}

Max(a, b) == IF a >= b THEN a ELSE b
Min(a, b) == IF a <= b THEN a ELSE b

(***************************************************************************)
(* Redis.                                                                  *)
(***************************************************************************)

\* Whether a key whose TTL ends at second e is gone for a command issued in
\* clock second t.  The TTL has millisecond resolution and the clock is read in
\* whole seconds, so in the second the TTL ends both outcomes occur.
KeyGone(e, t) == IF t > e THEN {TRUE} ELSE IF t = e THEN BOOLEAN ELSE {FALSE}

\* The sorted set stored under a key as a command sees it.
Stored(set, gone) == IF gone THEN {} ELSE set

\* ZREMRANGEBYSCORE key lo hi: drops the members whose score is in [lo, hi].
zremrangebyscore(set, lo, hi) == {e \in set : ~(lo <= e /\ e <= hi)}

\* ZADD key {str(t): t}: the member is the second itself, so adding the same
\* second twice leaves one member.
zadd(set, t) == set \cup {t}

zcard(set) == Cardinality(set)

(***************************************************************************)
(* RateLimiter.check_rate_limit: one MULTI/EXEC pipeline.                  *)
(***************************************************************************)
check_rate_limit_allowed_lenient(attempts, max_attempts) == attempts <= max_attempts

check_rate_limit_allowed(attempts, max_attempts) == attempts < max_attempts

check_rate_limit(set, t, max_attempts, window_seconds) ==
    LET window_start == t - window_seconds
        kept     == zremrangebyscore(set, 0, window_start)
        added    == zadd(kept, t)
        attempts == zcard(added)
    IN  [ set        |-> added,
          expire     |-> t + window_seconds,
          allowed    |-> check_rate_limit_allowed(attempts, max_attempts),
          remaining  |-> Max(0, max_attempts - attempts),
          reset_time |-> t + window_seconds,
          attempts   |-> attempts ]

(***************************************************************************)
(* RateLimiter.increment_failed_attempt: ZADD then EXPIRE, no eviction.    *)
(***************************************************************************)
increment_failed_attempt(set, t, window_seconds) ==
    [ set |-> zadd(set, t), expire |-> t + window_seconds ]

(***************************************************************************)
(* The rate limiter on its own: clients call the two operations on keys.   *)
(***************************************************************************)
RLInstants == {0, 1, 2, 3, 4, 900}

NoOp == [op |-> "none"]

InitRL ==
    /\ now = 0
    /\ rl = [k \in Keys |-> {}]
    /\ rlExpire = [k \in Keys |-> 0]
    /\ calls = [k \in Keys |-> [t \in RLInstants |-> [ok |-> 0, no |-> 0, inc |-> 0]]]
    /\ epoch = [k \in Keys |-> NULL]
    /\ nops = 0
    /\ last = NoOp
    /\ users = << >>
    /\ sessions = {}
    /\ audit = << >>
    /\ procs = << >>
    /\ twin = << >>

CheckRateLimit(k) ==
    /\ nops < MaxCalls
    /\ \E gone \in KeyGone(rlExpire[k], now) :
         LET before == Stored(rl[k], gone)
             r == check_rate_limit(before, now, MaxAttempts, WindowSeconds)
         IN  /\ rl' = [rl EXCEPT ![k] = r.set]
             /\ rlExpire' = [rlExpire EXCEPT ![k] = r.expire]
             /\ calls' = [calls EXCEPT ![k][now] =
                            IF r.allowed THEN [@ EXCEPT !.ok = @ + 1]
                                         ELSE [@ EXCEPT !.no = @ + 1]]
             /\ epoch' = IF r.attempts = 1 THEN [epoch EXCEPT ![k] = now] ELSE epoch
             /\ last' = [ op |-> "check_rate_limit", key |-> k, t |-> now,
                          allowed |-> r.allowed,
                          remaining |-> r.remaining, attempts |-> r.attempts,
                          reset_time |-> r.reset_time ]
    /\ nops' = nops + 1
    /\ UNCHANGED <<now, users, sessions, audit, procs, twin>>

IncrementFailedAttempt(k) ==
    /\ nops < MaxCalls
    /\ \E gone \in KeyGone(rlExpire[k], now) :
         LET before == Stored(rl[k], gone)
             r == increment_failed_attempt(before, now, WindowSeconds)
         IN  /\ rl' = [rl EXCEPT ![k] = r.set]
             /\ rlExpire' = [rlExpire EXCEPT ![k] = r.expire]
             /\ last' = [ op |-> "increment_failed_attempt", key |-> k, t |-> now ]
    /\ calls' = [calls EXCEPT ![k][now].inc = @ + 1]
    /\ nops' = nops + 1
    /\ UNCHANGED <<now, epoch, users, sessions, audit, procs, twin>>

TickRL ==
    /\ \E t \in RLInstants : t > now /\ now' = t
    /\ UNCHANGED <<rl, rlExpire, calls, epoch, nops, last, users, sessions, audit, procs, twin>>

NextRL ==
    \/ \E k \in Keys : CheckRateLimit(k)
    \/ \E k \in Keys : IncrementFailedAttempt(k)
    \/ TickRL

SpecRL == InitRL /\ [][NextRL]_vars

(***************************************************************************)
(* Properties of the rate limiter (SpecRL).                                *)
(***************************************************************************)
RECURSIVE SumOf(_, _)
SumOf(S, f) == IF S = {} THEN 0
               ELSE LET x == CHOOSE y \in S : TRUE IN f[x] + SumOf(S \ {x}, f)

\* check_rate_limit calls on key k answered allowed in the seconds [s, s + 900).
AllowedIn(k, s) ==
    SumOf({t \in RLInstants : s <= t /\ t < s + WindowSeconds},
          [t \in RLInstants |-> calls[k][t].ok])

\* check_rate_limit calls on key k made in the seconds (t - 900, t].
ChecksUpTo(k, t) ==
    SumOf({u \in RLInstants : t - WindowSeconds < u /\ u <= t},
          [u \in RLInstants |-> calls[k][u].ok + calls[k][u].no])

\* Seconds in (t - 900, t] in which some operation recorded an attempt on key k.
SecondsUsed(k, t) ==
    {u \in RLInstants : /\ t - WindowSeconds < u /\ u <= t
                        /\ calls[k][u].ok + calls[k][u].no + calls[k][u].inc > 0}

\* C1: on one key with (max_attempts=5, window_seconds=900), at most 4 calls of
\* check_rate_limit inside any 900-second window return allowed=true, whatever
\* the timing, same-second calls included.
C1_AtMostFourAllowedPerWindow ==
    \A k \in Keys : \A s \in RLInstants : AllowedIn(k, s) <= MaxAttempts - 1

\* C7: the 6th check_rate_limit request on a key within 900 seconds is rejected,
\* and a request that follows 900 seconds without any request on the key sees
\* an empty window (attempts = 1) and is allowed.
C7_SixthRejectedAndFreshAfterQuiet ==
    last.op = "check_rate_limit" =>
        /\ ChecksUpTo(last.key, last.t) >= MaxAttempts + 1 => ~last.allowed
        /\ SecondsUsed(last.key, last.t) = {last.t} =>
              (last.attempts = 1 /\ last.allowed)

\* C8: check_rate_limit answers allowed = (attempts < max_attempts) and
\* remaining = max(0, max_attempts - attempts), attempts counting the entries of
\* the window with the one this call records; in one window (the 900 seconds
\* from a call that found the key empty) the call that brings the count to
\* max_attempts is rejected and no call before it was, and once a call was
\* rejected every later call of that window is rejected.
C8_AllowedIffBelowMax ==
    last.op = "check_rate_limit" =>
        LET k == last.key
            e == epoch[k]
        IN  /\ last.attempts = Cardinality(SecondsUsed(k, last.t))
            /\ last.allowed <=> (last.attempts < MaxAttempts)
            /\ last.remaining = Max(0, MaxAttempts - last.attempts)
            /\ (e # NULL /\ last.t < e + WindowSeconds) =>
                  /\ last.attempts = MaxAttempts =>
                        /\ ~last.allowed
                        /\ \A u \in RLInstants :
                              (e <= u /\ u < last.t) => calls[k][u].no = 0
                  /\ last.allowed =>
                        \A u \in RLInstants :
                          (e <= u /\ u <= last.t) => calls[k][u].no = 0

\* The fifth distinct second of a window is rejected after allowed calls, and
\* so is a further call in that second.
C8_Witness ==
    /\ last.op = "check_rate_limit"
    /\ last.attempts = MaxAttempts
    /\ ~last.allowed
    /\ epoch[last.key] = 0
    /\ calls[last.key][0].ok >= 1
    /\ calls[last.key][last.t].no >= 2

(***************************************************************************)
(* Tokens.  A JWT is signed with HS256 over its claims, so the token is    *)
(* a function of its claims: two tokens with the same claims are the same  *)
(* string.  iat and exp are written in whole seconds.                      *)
(***************************************************************************)
AccessTokenExpireMinutes == 30
RefreshTokenExpireDays == 7

create_access_token(sub, username, t) ==
    [ sub |-> sub, username |-> username, iat |-> t,
      iss |-> "SmartSecurity Cloud", aud |-> "SmartSecurity Users",
      type |-> "access", exp |-> t + AccessTokenExpireMinutes * 60 ]

create_refresh_token(sub, username, t) ==
    [ sub |-> sub, username |-> username, iat |-> t,
      iss |-> "SmartSecurity Cloud", aud |-> "SmartSecurity Users",
      type |-> "refresh", exp |-> t + RefreshTokenExpireDays * 86400 ]

\* A string that is no token of the system.
BadToken == [ type |-> "garbage" ]

\* sha256 of "user_agent:ip_address": one fingerprint per pair.
generate_device_fingerprint(user_agent, ip_address) == <<user_agent, ip_address>>

(***************************************************************************)
(* SecurityAuditor.log_security_event: LPUSH then LTRIM 0 9999.            *)
(***************************************************************************)
AuditKeep == 10000

SecurityEvent(event_type, user_id, ip_address, user_agent, success, details, severity, t) ==
    [ event_type |-> event_type, user_id |-> user_id, ip_address |-> ip_address,
      user_agent |-> user_agent, success |-> success, severity |-> severity,
      details |-> details, timestamp |-> t ]

log_security_event_short_trim(log, event) ==
    LET pushed == <<event>> \o log
    IN  IF Len(pushed) > AuditKeep - 1 THEN SubSeq(pushed, 1, AuditKeep - 1) ELSE pushed

log_security_event(log, event) ==
    LET pushed == <<event>> \o log
    IN  IF Len(pushed) > AuditKeep THEN SubSeq(pushed, 1, AuditKeep) ELSE pushed

(***************************************************************************)
(* Accounts (table user) and sessions (table usersession).                 *)
(***************************************************************************)
Usernames == {"alice", "bob"}
Devices == {[ip |-> "ip1", ua |-> "ua1"]}

DefaultMaxConcurrentSessions == 5

\* The limits the accounts of the model are configured with.
Limits == {1, 2}
DefaultSessionTimeoutMinutes == 30

\* A row of table user as the model's defaults create it.
User(username) ==
    [ id |-> username, username |-> username,
      hashed_password |-> [pw |-> "Str0ng!Passw0rd", salt |-> 0],
      password_changed_at |-> 0, password_history |-> << >>,
      is_active |-> TRUE, mfa_enabled |-> FALSE, mfa_setup_completed |-> FALSE,
      failed_login_attempts |-> 0, locked_until |-> NULL, last_login |-> NULL,
      last_login_ip |-> "", last_login_user_agent |-> "",
      trusted_devices |-> {},
      max_concurrent_sessions |-> DefaultMaxConcurrentSessions,
      session_timeout_minutes |-> DefaultSessionTimeoutMinutes ]

\* User.add_trusted_device: one entry per fingerprint; a known fingerprint has
\* its last_used refreshed, an unknown one is appended.
add_trusted_device(devices, fingerprint, t) ==
    IF \E d \in devices : d.fingerprint = fingerprint
    THEN {IF d.fingerprint = fingerprint THEN [d EXCEPT !.last_used = t] ELSE d : d \in devices}
    ELSE devices \cup {[fingerprint |-> fingerprint, added_at |-> t, last_used |-> t]}

ActiveSessions_any_account(table, user_id) == {r \in table : r.is_active}

\* SELECT ... WHERE user_id = :id AND is_active
ActiveSessions(table, user_id) == {r \in table : r.user_id = user_id /\ r.is_active}

\* min(active_sessions, key=created_at): the rows the minimum may be.
OldestOf(rows) == {r \in rows : \A o \in rows : r.created_at <= o.created_at}

Deactivate_toggling(table, ids) ==
    {IF r.id \in ids THEN [r EXCEPT !.is_active = ~@] ELSE r : r \in table}

\* UPDATE usersession SET is_active = false WHERE id IN ids
Deactivate(table, ids) ==
    {IF r.id \in ids THEN [r EXCEPT !.is_active = FALSE] ELSE r : r \in table}

\* The row create_user_session builds.
UserSession(id, user, dev, t) ==
    [ id |-> id, user_id |-> user.id,
      session_token |-> create_access_token(user.id, user.username, t),
      refresh_token |-> create_refresh_token(user.id, user.username, t),
      device_fingerprint |-> generate_device_fingerprint(dev.ua, dev.ip),
      created_at |-> t, expires_at |-> t + user.session_timeout_minutes * 60,
      last_activity |-> t, is_active |-> TRUE ]

\* session_token and refresh_token are declared unique: the INSERT of a row
\* that repeats either raises IntegrityError at commit.
UniqueOk(table, row) ==
    \A r \in table : /\ r.session_token # row.session_token
                     /\ r.refresh_token # row.refresh_token

\* Whether create_user_session evicts: the limit check on the rows it read.
OverLimit(active, user) == Cardinality(active) >= user.max_concurrent_sessions

NewId(table) == Cardinality(table) + 1

(***************************************************************************)
(* The session operations, each request run to its end before the next.   *)
(***************************************************************************)
SessInstants == {0, 1, 2}

InitSess ==
    /\ now = 0
    /\ rl = [k \in Keys |-> {}]
    /\ rlExpire = [k \in Keys |-> 0]
    /\ calls = << >>
    /\ epoch = << >>
    /\ nops = 0
    /\ last = NoOp
    /\ \E n \in Limits :
         users = [u \in Usernames |-> [User(u) EXCEPT !.max_concurrent_sessions = n]]
    /\ sessions = {}
    /\ audit = << >>
    /\ procs = << >>
    /\ twin = << >>

CreateUserSession(u, dev) ==
    /\ Cardinality(sessions) < MaxSessions
    /\ LET user   == users[u]
           active == ActiveSessions(sessions, user.id)
           over   == OverLimit(active, user)
       IN  \E oldest \in (IF over THEN OldestOf(active) ELSE {NoOp}) :
             LET evicted == IF over THEN {oldest.id} ELSE {}
                 table   == Deactivate(sessions, evicted)
                 row     == UserSession(NewId(table), user, dev, now)
                 ok      == UniqueOk(table, row)
             IN  /\ sessions' = IF ok THEN table \cup {row} ELSE table
                 /\ users' = IF ok
                      THEN [users EXCEPT ![u].trusted_devices =
                              add_trusted_device(@, row.device_fingerprint, now)]
                      ELSE users
                 /\ last' = [ op |-> "create_user_session", user |-> u,
                              active_before |-> {r.id : r \in active}, evicted |-> evicted,
                              created |-> IF ok THEN row.id ELSE NULL,
                              raised |-> IF ok THEN "" ELSE "IntegrityError" ]
    /\ UNCHANGED <<now, rl, rlExpire, calls, epoch, nops, audit, procs, twin>>

LogoutUser(access_token, dev) ==
    /\ Len(audit) < MaxEvents
    /\ LET found == {r \in sessions : r.session_token = access_token}
       IN  IF found # {}
           THEN /\ sessions' = Deactivate(sessions, {r.id : r \in found})
                /\ audit' = log_security_event(audit,
                     SecurityEvent("logout", (CHOOSE r \in found : TRUE).user_id,
                                   dev.ip, dev.ua, TRUE,
                                   [session_id |-> (CHOOSE r \in found : TRUE).id],
                                   "low", now))
                /\ last' = [ op |-> "logout_user", token |-> access_token,
                             result |-> TRUE ]
           ELSE /\ UNCHANGED <<sessions, audit>>
                /\ last' = [ op |-> "logout_user", token |-> access_token,
                             result |-> FALSE ]
    /\ UNCHANGED <<now, rl, rlExpire, calls, epoch, nops, users, procs, twin>>

LogoutAllSessions(user_id, dev) ==
    /\ Len(audit) < MaxEvents
    /\ LET active == ActiveSessions(sessions, user_id)
       IN  /\ sessions' = Deactivate(sessions, {r.id : r \in active})
           /\ audit' = log_security_event(audit,
                SecurityEvent("logout_all_sessions", user_id, dev.ip, dev.ua, TRUE,
                              [sessions_terminated |-> Cardinality(active)],
                              "medium", now))
           /\ last' = [ op |-> "logout_all_sessions", user |-> user_id,
                        result |-> Cardinality(active) ]
    /\ UNCHANGED <<now, rl, rlExpire, calls, epoch, nops, users, procs, twin>>

TickSess ==
    /\ \E t \in SessInstants : t > now /\ now' = t
    /\ UNCHANGED <<rl, rlExpire, calls, epoch, nops, last, users, sessions, audit, procs, twin>>

\* The tokens a client may present: those issued so far and a string that is none.
KnownTokens ==
    {r.session_token : r \in sessions} \cup {r.refresh_token : r \in sessions}
        \cup {BadToken}

NextSess ==
    \/ \E u \in Usernames, dev \in Devices : CreateUserSession(u, dev)
    \/ \E tok \in KnownTokens, dev \in Devices : LogoutUser(tok, dev)
    \/ \E u \in Usernames, dev \in Devices : LogoutAllSessions(u, dev)
    \/ TickSess

SpecSess == InitSess /\ [][NextSess]_vars

(***************************************************************************)
(* Properties of the session operations run one after another (SpecSess).  *)
(***************************************************************************)
RowOf(id) == CHOOSE r \in sessions : r.id = id

\* C3: after any sequence of non-overlapping create_user_session, logout_user
\* and logout_all_sessions calls an account has at most max_concurrent_sessions
\* active sessions; a create_user_session made while that many are active
\* deactivates exactly one session, the one with the smallest created_at, leaves
\* every other session active, and creates the new session.
C3_EvictOldestAndCreate ==
    /\ \A u \in Usernames :
         Cardinality(ActiveSessions(sessions, users[u].id)) <= users[u].max_concurrent_sessions
    /\ ( /\ last.op = "create_user_session"
         /\ Cardinality(last.active_before) = users[last.user].max_concurrent_sessions )
       => /\ Cardinality(last.evicted) = 1
          /\ \A id \in last.evicted :
               /\ id \in last.active_before
               /\ ~RowOf(id).is_active
               /\ \A o \in last.active_before : RowOf(id).created_at <= RowOf(o).created_at
          /\ \A id \in last.active_before \ last.evicted : RowOf(id).is_active
          /\ last.created # NULL
          /\ RowOf(last.created).is_active
          /\ RowOf(last.created).user_id = users[last.user].id

(***************************************************************************)
(* create_user_session under concurrency: each request is a task that     *)
(* yields at its awaits (the SELECT, the eviction commit, the INSERT       *)
(* commit, the trusted-device commit); other requests run in between.      *)
(***************************************************************************)
Procs == {"p1", "p2"}

Idle == [pc |-> "idle"]

InFlight == {p \in Procs : procs[p].pc # "idle"}

InitSessConc ==
    /\ now = 0
    /\ rl = [k \in Keys |-> {}]
    /\ rlExpire = [k \in Keys |-> 0]
    /\ calls = << >>
    /\ epoch = << >>
    /\ nops = 0
    /\ last = NoOp
    /\ \E n \in Limits :
         users = [u \in Usernames |-> [User(u) EXCEPT !.max_concurrent_sessions = n]]
    /\ sessions = {}
    /\ audit = << >>
    /\ procs = [p \in Procs |-> Idle]
    /\ twin = << >>

\* await session.execute(select(UserSession)...): the rows the request works on.
CreateRead(p, u, dev) ==
    /\ procs[p].pc = "idle"
    /\ Cardinality(sessions) + Cardinality(InFlight) < MaxSessions
    /\ LET user   == users[u]
           active == ActiveSessions(sessions, user.id)
       IN  procs' = [procs EXCEPT ![p] =
                       [ pc |-> IF OverLimit(active, user) THEN "evict" ELSE "insert",
                         user |-> user, dev |-> dev, active |-> active ]]
    /\ UNCHANGED <<now, rl, rlExpire, calls, epoch, nops, last, users, sessions, audit, twin>>

\* oldest_session.is_active = False; await session.commit()
CreateEvict(p) ==
    /\ procs[p].pc = "evict"
    /\ \E oldest \in OldestOf(procs[p].active) :
         sessions' = Deactivate(sessions, {oldest.id})
    /\ procs' = [procs EXCEPT ![p].pc = "insert"]
    /\ UNCHANGED <<now, rl, rlExpire, calls, epoch, nops, last, users, audit, twin>>

\* session.add(user_session); await session.commit()
CreateInsert(p) ==
    /\ procs[p].pc = "insert"
    /\ LET row == UserSession(NewId(sessions), procs[p].user, procs[p].dev, now)
           ok  == UniqueOk(sessions, row)
       IN  /\ sessions' = IF ok THEN sessions \cup {row} ELSE sessions
           /\ procs' = [procs EXCEPT ![p] = IF ok THEN [@ EXCEPT !.pc = "trust"] ELSE Idle]
    /\ UNCHANGED <<now, rl, rlExpire, calls, epoch, nops, last, users, audit, twin>>

\* user.add_trusted_device(device_info); await session.commit()
CreateTrust(p) ==
    /\ procs[p].pc = "trust"
    /\ LET user == procs[p].user
           fp   == generate_device_fingerprint(procs[p].dev.ua, procs[p].dev.ip)
       IN  users' = [users EXCEPT ![user.username].trusted_devices =
                       add_trusted_device(user.trusted_devices, fp, now)]
    /\ procs' = [procs EXCEPT ![p] = Idle]
    /\ UNCHANGED <<now, rl, rlExpire, calls, epoch, nops, last, sessions, audit, twin>>

TickSessConc ==
    /\ \E t \in SessInstants : t > now /\ now' = t
    /\ UNCHANGED <<rl, rlExpire, calls, epoch, nops, last, users, sessions, audit, procs, twin>>

NextSessConc ==
    \/ \E p \in Procs, u \in Usernames, dev \in Devices : CreateRead(p, u, dev)
    \/ \E p \in Procs : CreateEvict(p)
    \/ \E p \in Procs : CreateInsert(p)
    \/ \E p \in Procs : CreateTrust(p)
    \/ TickSessConc

SpecSessConc == InitSessConc /\ [][NextSessConc]_vars

\* C2: for any interleaving of concurrent create_user_session calls for one
\* account, the number of its active sessions never exceeds its
\* max_concurrent_sessions.
C2_ActiveWithinLimitUnderConcurrency ==
    \A u \in Usernames :
        Cardinality(ActiveSessions(sessions, users[u].id)) <= users[u].max_concurrent_sessions

(***************************************************************************)
(* Login: the helpers of authenticate_user.                                *)
(***************************************************************************)

\* sanitize_input on the strings of the model: the dangerous characters are
\* removed and the rest is stripped of surrounding blanks.
sanitize_input(input_string) ==
    CASE input_string = "<alice>" -> "alice"
      [] OTHER                    -> input_string

\* str.lower on the strings of the model.
lower(string) ==
    CASE string = "Password" -> "password"
      [] OTHER               -> string

\* Some members of COMMON_PASSWORDS.
COMMON_PASSWORDS == {"password", "123456", "qwerty"}

check_password_breach(password) == lower(password) \in COMMON_PASSWORDS

\* pwd_context.verify: the hash verifies the password it was made from.
verify_password(plain_password, hashed_password) == hashed_password.pw = plain_password

Days(n) == n * 86400
Minutes(n) == n * 60

PasswordMaxAgeDays == 90

lockout_durations == <<5, 10, 15, 30, 60>>
LockoutCapMinutes == 60

\* The account clock (datetime.utcnow) has microseconds and the model keeps
\* whole seconds: a comparison of two instants of the same second has both
\* outcomes.
is_locked_until_cleared(user, t) ==
    IF user.locked_until = NULL THEN {FALSE} ELSE {TRUE}

is_locked(user, t) ==
    IF user.locked_until = NULL THEN {FALSE}
    ELSE IF t < user.locked_until THEN {TRUE}
    ELSE IF t = user.locked_until THEN BOOLEAN
    ELSE {FALSE}

is_password_expired(user, t) ==
    IF user.password_changed_at = NULL THEN {TRUE}
    ELSE LET expiry_date == user.password_changed_at + Days(PasswordMaxAgeDays)
         IN  IF t > expiry_date THEN {TRUE}
             ELSE IF t = expiry_date THEN BOOLEAN
             ELSE {FALSE}

\* int(remaining_time.total_seconds() / 60) of a locked account: the remaining
\* time is within one second of locked_until - t and is positive.
remaining_minutes(user, t) ==
    LET d == user.locked_until - t
    IN  IF d > 0 /\ d % 60 = 0 THEN {(d \div 60) - 1, d \div 60} ELSE {d \div 60}

lockout_minutes_zero_based(failed_login_attempts) ==
    IF failed_login_attempts < Len(lockout_durations)
    THEN lockout_durations[failed_login_attempts + 1]
    ELSE LockoutCapMinutes

lockout_minutes(failed_login_attempts) ==
    IF failed_login_attempts <= Len(lockout_durations)
    THEN lockout_durations[failed_login_attempts]
    ELSE LockoutCapMinutes

increment_failed_login_attempts_without_lock(user, t) ==
    [user EXCEPT !.failed_login_attempts = @ + 1]

increment_failed_login_attempts(user, t) ==
    LET failed == user.failed_login_attempts + 1
    IN  [user EXCEPT !.failed_login_attempts = failed,
                     !.locked_until = t + Minutes(lockout_minutes(failed))]

reset_failed_login_attempts(user) ==
    [user EXCEPT !.failed_login_attempts = 0, !.locked_until = NULL]

record_successful_login_keeps_lock(user, ip_address, user_agent, t) ==
    [user EXCEPT !.last_login = t, !.last_login_ip = ip_address,
                 !.last_login_user_agent = user_agent,
                 !.failed_login_attempts = 0]

record_successful_login(user, ip_address, user_agent, t) ==
    [user EXCEPT !.last_login = t, !.last_login_ip = ip_address,
                 !.last_login_user_agent = user_agent,
                 !.failed_login_attempts = 0, !.locked_until = NULL]

\* User.can_login: the statuses it may return at second t.
can_login_unguarded(user, t) ==
    {[ can_login |-> TRUE, requires_mfa |-> user.mfa_enabled ]}

can_login(user, t) ==
    IF ~user.is_active
    THEN {[ can_login |-> FALSE, reason |-> "Account is deactivated",
            requires_action |-> "contact_admin" ]}
    ELSE UNION {
           IF locked
           THEN {[ can_login |-> FALSE,
                   reason |-> "Account is locked for " \o ToString(m) \o " minutes",
                   requires_action |-> "wait", lockout_remaining_minutes |-> m ]
                 : m \in remaining_minutes(user, t)}
           ELSE {IF expired
                 THEN [ can_login |-> FALSE, reason |-> "Password has expired",
                        requires_action |-> "change_password" ]
                 ELSE IF user.mfa_enabled /\ ~user.mfa_setup_completed
                 THEN [ can_login |-> FALSE, reason |-> "MFA setup required",
                        requires_action |-> "setup_mfa" ]
                 ELSE [ can_login |-> TRUE, requires_mfa |-> user.mfa_enabled ]
                 : expired \in is_password_expired(user, t)}
           : locked \in is_locked(user, t)}

NoUser == "None"

\* The result dictionaries of the two failures that name no cause.
user_not_found_result_revealing ==
    [ success |-> FALSE, error |-> "User not found", rate_limited |-> FALSE ]

user_not_found_result ==
    [ success |-> FALSE, error |-> "Incorrect username or password",
      rate_limited |-> FALSE ]

invalid_password_result_revealing ==
    [ success |-> FALSE, error |-> "Incorrect password", rate_limited |-> FALSE ]

invalid_password_result ==
    [ success |-> FALSE, error |-> "Incorrect username or password",
      rate_limited |-> FALSE ]

(***************************************************************************)
(* AuthenticationService.authenticate_user over the stores it works on     *)
(* (w: the rate limiter keys, table user and the audit list): the          *)
(* outcomes the call may have at second t, each with the stores as the     *)
(* call leaves them, the user it returns, the result it returns and the    *)
(* number of increment_failed_attempt calls it made (recorded).            *)
(***************************************************************************)
authenticate_user(w, username, password, ip_address, user_agent, t) ==
    LET name == sanitize_input(username)
        ip   == sanitize_input(ip_address)
        ua   == sanitize_input(user_agent)
        rate_limit_key == "login:" \o ip
        Logged(world, event_type, user_id, success, details, severity) ==
            [world EXCEPT !.audit = log_security_event(@,
                SecurityEvent(event_type, user_id, ip, ua, success, details, severity, t))]
    IN  UNION {
          LET r   == check_rate_limit(Stored(w.rl[rate_limit_key], gone), t,
                                      MaxAttempts, WindowSeconds)
              w1  == [w EXCEPT !.rl[rate_limit_key] = r.set,
                               !.rlExpire[rate_limit_key] = r.expire]
              inc == increment_failed_attempt(r.set, t, WindowSeconds)
              w2  == [w1 EXCEPT !.rl[rate_limit_key] = inc.set,
                                !.rlExpire[rate_limit_key] = inc.expire]
          IN  IF ~r.allowed
              THEN {[ world |-> Logged(w1, "login_rate_limited", NoUser, FALSE,
                                  [rate_limit_info |->
                                     [allowed |-> r.allowed, remaining |-> r.remaining,
                                      reset_time |-> r.reset_time, attempts |-> r.attempts]],
                                  "medium"),
                      user |-> NoUser, recorded |-> 0,
                      result |-> [ success |-> FALSE,
                                   error |-> "Too many login attempts. Please try again later.",
                                   rate_limited |-> TRUE,
                                   reset_time |-> r.reset_time ] ]}
              ELSE IF name \notin DOMAIN w.users
              THEN {[ world |-> Logged(w2, "login_failed", NoUser, FALSE,
                                  [username |-> name, reason |-> "user_not_found"], "low"),
                      user |-> NoUser, recorded |-> 1,
                      result |-> user_not_found_result ]}
              ELSE LET user == w.users[name]
                   IN  { IF ~login_status.can_login
                         THEN [ world |-> Logged(w2, "login_blocked", user.id, FALSE,
                                            [reason |-> login_status.reason], "medium"),
                                user |-> NoUser, recorded |-> 1,
                                result |-> [ success |-> FALSE,
                                             error |-> login_status.reason,
                                             requires_action |-> login_status.requires_action,
                                             rate_limited |-> FALSE ] ]
                         ELSE IF ~verify_password(password, user.hashed_password)
                         THEN [ world |-> Logged(
                                   [w2 EXCEPT !.users[name] =
                                        increment_failed_login_attempts(user, t)],
                                   "login_failed", user.id, FALSE,
                                   [username |-> name, reason |-> "invalid_password"],
                                   "medium"),
                                user |-> NoUser, recorded |-> 1,
                                result |-> invalid_password_result ]
                         ELSE IF check_password_breach(password)
                         THEN [ world |-> Logged(w1, "password_breach_detected", user.id,
                                            FALSE, [username |-> name], "high"),
                                user |-> NoUser, recorded |-> 0,
                                result |-> [ success |-> FALSE,
                                             error |-> "Password has been compromised. Please change your password.",
                                             requires_action |-> "change_password",
                                             rate_limited |-> FALSE ] ]
                         ELSE [ world |-> Logged(
                                   [w1 EXCEPT !.users[name] =
                                        record_successful_login(user, ip, ua, t)],
                                   "login_success", user.id, TRUE,
                                   [username |-> name], "low"),
                                user |-> user.id, recorded |-> 0,
                                result |-> [ success |-> TRUE, user |-> user.id,
                                             rate_limited |-> FALSE ] ]
                         : login_status \in can_login(user, t) }
          : gone \in KeyGone(w.rlExpire[rate_limit_key], t) }

(***************************************************************************)
(* Logins, each request run to its end before the next.  The account       *)
(* alice starts in one of the states earlier traffic leaves an account in, *)
(* and the key of ip1 with or without earlier attempts.                    *)
(***************************************************************************)
T0 == Days(100)

AuthInstants == {T0, T0 + 1, T0 + 300, T0 + 301}

LoginNames == {"alice", "<alice>", "mallory"}
Passwords == {"Str0ng!Passw0rd", "password"}
LoginDevices == {[ip |-> "ip1", ua |-> "ua1"], [ip |-> "ip2", ua |-> "ua2"]}

\* An account whose password was set a while before T0.
Registered(username) == [User(username) EXCEPT !.password_changed_at = T0 - 1000]

\* k failed logins in a row, the last lockout over.
AfterFailures(k) ==
    [Registered("alice") EXCEPT !.failed_login_attempts = k,
                                !.locked_until = IF k = 0 THEN NULL ELSE T0 - 500]

Deactivated == [Registered("alice") EXCEPT !.is_active = FALSE]
PasswordExpired == [Registered("alice") EXCEPT !.password_changed_at = 0]
MfaPending == [Registered("alice") EXCEPT !.mfa_enabled = TRUE]
WeakPassword == [Registered("alice") EXCEPT !.hashed_password.pw = "password"]

Accounts ==
    {AfterFailures(k) : k \in 0..MaxPriorFailures}
        \cup {Deactivated, PasswordExpired, MfaPending, WeakPassword}

\* The seconds recorded under a key by four earlier attempts.
EarlierAttempts == {T0 - 4, T0 - 3, T0 - 2, T0 - 1}

World == [rl |-> rl, rlExpire |-> rlExpire, users |-> users, audit |-> audit]

InitAuth ==
    /\ now = T0
    /\ \E prior \in {{}, EarlierAttempts} :
         /\ rl = [k \in Keys |-> IF k = "login:ip1" THEN prior ELSE {}]
         /\ rlExpire = [k \in Keys |->
                          IF k = "login:ip1" /\ prior # {}
                          THEN T0 - 1 + WindowSeconds ELSE 0]
    /\ calls = << >>
    /\ epoch = << >>
    /\ nops = 0
    /\ last = NoOp
    /\ \E account \in Accounts :
         users = [u \in Usernames |-> IF u = "alice" THEN account ELSE Registered(u)]
    /\ sessions = {}
    /\ audit = << >>
    /\ procs = << >>
    /\ twin = << >>

\* What the observer keeps of a call.
Observed(w, username, password, dev, t, o) ==
    LET name == sanitize_input(username)
    IN  [ op |-> "authenticate_user", username |-> username, password |-> password,
          ip_address |-> dev.ip, user_agent |-> dev.ua, t |-> t,
          known |-> name \in DOMAIN w.users,
          before |-> IF name \in DOMAIN w.users THEN w.users[name] ELSE NoOp,
          user |-> o.user, result |-> o.result, recorded |-> o.recorded ]

\* One request served by authenticate_user.
Login(username, password, dev) ==
    /\ \E o \in authenticate_user(World, username, password, dev.ip, dev.ua, now) :
         /\ rl' = o.world.rl
         /\ rlExpire' = o.world.rlExpire
         /\ users' = o.world.users
         /\ audit' = o.world.audit
         /\ last' = Observed(World, username, password, dev, now, o)
    /\ nops' = nops + 1
    /\ UNCHANGED <<now, calls, epoch, sessions, procs, twin>>

AuthenticateUser(username, password, dev) ==
    /\ nops < MaxAuthCalls
    /\ Login(username, password, dev)

TickAuth ==
    /\ \E t \in AuthInstants : t > now /\ now' = t
    /\ UNCHANGED <<rl, rlExpire, calls, epoch, nops, last, users, sessions, audit, procs, twin>>

NextAuth ==
    \/ \E username \in LoginNames, password \in Passwords, dev \in LoginDevices :
         AuthenticateUser(username, password, dev)
    \/ TickAuth

SpecAuth == InitAuth /\ [][NextAuth]_vars

(***************************************************************************)
(* Properties of authenticate_user (SpecAuth).                             *)
(***************************************************************************)
IsLogin == last.op = "authenticate_user"

IsRateLimited(result) == result.rate_limited

IsInvalidCredentials(result) ==
    result = [ success |-> FALSE, error |-> "Incorrect username or password",
               rate_limited |-> FALSE ]

IsBlocked(result, action) ==
    /\ "requires_action" \in DOMAIN result
    /\ result.requires_action = action

\* The last call found the password not to match the account's.
PasswordMismatch ==
    /\ IsLogin
    /\ audit[1].event_type = "login_failed"
    /\ audit[1].details.reason = "invalid_password"

\* C4: each password-mismatch transition raises failed_login_attempts by
\* exactly 1 and sets locked_until to now + durations[min(k,5)-1] minutes, k
\* the new counter value and durations = [5,10,15,30,60]: 5, 10, 15, 30, 60
\* minutes for k = 1..5 and 60 minutes for every k >= 6.
C4_ProgressiveLockout ==
    PasswordMismatch =>
        LET account == users[audit[1].user_id]
            k == account.failed_login_attempts
        IN  /\ k = last.before.failed_login_attempts + 1
            /\ account.locked_until = last.t + 60 * <<5, 10, 15, 30, 60>>[Min(k, 5)]

\* C4 happens: a sixth failure in a row locks the account for 60 minutes.
C4_Witness ==
    /\ PasswordMismatch
    /\ users[audit[1].user_id].failed_login_attempts = 6
    /\ users[audit[1].user_id].locked_until = last.t + 3600

\* C5: every authenticate_user call that returns success leaves the account
\* with failed_login_attempts = 0 and locked_until = null, whatever they were
\* before the call, and records last_login, last_login_ip and
\* last_login_user_agent.
C5_SuccessResetsLockout ==
    (IsLogin /\ last.result.success) =>
        LET account == users[last.user]
        IN  /\ account.failed_login_attempts = 0
            /\ account.locked_until = NULL
            /\ account.last_login = last.t
            /\ account.last_login_ip = last.ip_address
            /\ account.last_login_user_agent = last.user_agent

\* C5 happens: a login succeeds on an account that had failures and a lockout
\* (over by then) on record.
C5_Witness ==
    /\ IsLogin
    /\ last.result.success
    /\ last.before.failed_login_attempts > 0
    /\ last.before.locked_until # NULL
    /\ users[last.user].failed_login_attempts = 0
    /\ users[last.user].locked_until = NULL
    /\ users[last.user].last_login_ip = "ip2"

\* What the account named in the last call was like when the call was made.
WasUnlocked == last.before.locked_until = NULL \/ last.t > last.before.locked_until
WasLocked == last.before.locked_until # NULL /\ last.t < last.before.locked_until
WasWrongPassword == ~verify_password(last.password, last.before.hashed_password)
WasPasswordCurrent == last.t < last.before.password_changed_at + Days(90)
WasMfaPending == last.before.mfa_enabled /\ ~last.before.mfa_setup_completed

\* The last call recorded one failed attempt under the caller's key.
RecordedOneFailedAttempt ==
    /\ last.recorded = 1
    /\ last.t \in rl["login:" \o last.ip_address]

ScenarioInstants == {T0, T0 + 1, T0 + 2, T0 + 3, T0 + 4, T0 + 5, T0 + 299, T0 + 300, T0 + 301}

InitScenario ==
    /\ now = T0
    /\ rl = [k \in Keys |-> {}]
    /\ rlExpire = [k \in Keys |-> 0]
    /\ calls = << >>
    /\ epoch = << >>
    /\ nops = 0
    /\ last = NoOp
    /\ users = [u \in Usernames |-> Registered(u)]
    /\ sessions = {}
    /\ audit = << >>
    /\ procs = << >>
    /\ twin = << >>

\* Which of the two the last request of the scenario was.
WrongAttempt == IsLogin /\ last.ip_address = "ip1"
CorrectAttempt == IsLogin /\ last.ip_address = "ip2"

WrongPasswordFromOneIp ==
    /\ nops < MaxScenarioAttempts
    /\ IF IsLogin THEN last.ip_address = "ip1" ELSE TRUE
    /\ Login("alice", "password", [ip |-> "ip1", ua |-> "ua1"])

CorrectPasswordFromOtherIp ==
    /\ nops >= MaxAttempts
    /\ WrongAttempt
    /\ Login("alice", "Str0ng!Passw0rd", [ip |-> "ip2", ua |-> "ua2"])

TickScenario ==
    /\ \E t \in ScenarioInstants : t > now /\ now' = t
    /\ UNCHANGED <<rl, rlExpire, calls, epoch, nops, last, users, sessions, audit, procs, twin>>

NextScenario ==
    \/ WrongPasswordFromOneIp
    \/ CorrectPasswordFromOtherIp
    \/ TickScenario

SpecScenario == InitScenario /\ [][NextScenario]_vars


TwinInstants == {T0, T0 + 1, T0 + 2, T0 + 3, T0 + 300, T0 + 301}

\* The accounts the probe may meet: active and not locked.
ProbedAccounts == {AfterFailures(0), AfterFailures(1), PasswordExpired, MfaPending}

InitTwin ==
    /\ now = T0
    /\ \E prior \in {{}, EarlierAttempts} :
         /\ rl = [k \in Keys |-> IF k = "login:ip1" THEN prior ELSE {}]
         /\ rlExpire = [k \in Keys |->
                          IF k = "login:ip1" /\ prior # {}
                          THEN T0 - 1 + WindowSeconds ELSE 0]
    /\ calls = << >>
    /\ epoch = << >>
    /\ nops = 0
    /\ last = NoOp
    /\ \E account \in ProbedAccounts :
         users = [u \in Usernames |-> IF u = "alice" THEN account ELSE Registered(u)]
    /\ sessions = {}
    /\ audit = << >>
    /\ procs = << >>
    /\ twin = [ rl |-> rl, rlExpire |-> rlExpire, audit |-> audit,
                users |-> [u \in Usernames \ {"alice"} |-> Registered(u)] ]

Probe(username, password, dev) ==
    /\ nops < MaxProbes
    /\ ~verify_password(password, users[sanitize_input(username)].hashed_password)
    /\ \E o \in authenticate_user(World, username, password, dev.ip, dev.ua, now),
          u \in authenticate_user(twin, username, password, dev.ip, dev.ua, now) :
         /\ rl' = o.world.rl
         /\ rlExpire' = o.world.rlExpire
         /\ users' = o.world.users
         /\ audit' = o.world.audit
         /\ twin' = u.world
         /\ last' = Observed(World, username, password, dev, now, o)
                       @@ ("unregistered" :> [user |-> u.user, result |-> u.result])
    /\ nops' = nops + 1
    /\ UNCHANGED <<now, calls, epoch, sessions, procs>>

TickTwin ==
    /\ \E t \in TwinInstants : t > now /\ now' = t
    /\ UNCHANGED <<rl, rlExpire, calls, epoch, nops, last, users, sessions, audit, procs, twin>>

NextTwin ==
    \/ \E username \in {"alice", "<alice>"}, password \in Passwords :
         Probe(username, password, [ip |-> "ip1", ua |-> "ua1"])
    \/ TickTwin

SpecTwin == InitTwin /\ [][NextTwin]_vars

NoPayload == [ none |-> TRUE ]
NoAudience == "None"

jwt_decode_any_audience(token, audience, t) ==
    IF token = BadToken
    THEN {[ error |-> "DecodeError", payload |-> NoPayload ]}
    ELSE { IF expired
           THEN [ error |-> "ExpiredSignatureError", payload |-> NoPayload ]
           ELSE [ error |-> "", payload |-> token ]
           : expired \in (IF t > token.exp THEN {TRUE}
                          ELSE IF t = token.exp THEN {TRUE, FALSE} ELSE {FALSE}) }

jwt_decode(token, audience, t) ==
    IF token = BadToken
    THEN {[ error |-> "DecodeError", payload |-> NoPayload ]}
    ELSE { IF expired
           THEN [ error |-> "ExpiredSignatureError", payload |-> NoPayload ]
           ELSE IF audience = NoAudience /\ "aud" \in DOMAIN token
           THEN [ error |-> "InvalidAudienceError", payload |-> NoPayload ]
           ELSE IF audience # NoAudience /\ token.aud # audience
           THEN [ error |-> "InvalidAudienceError", payload |-> NoPayload ]
           ELSE [ error |-> "", payload |-> token ]
           : expired \in (IF t > token.exp THEN {TRUE}
                          ELSE IF t = token.exp THEN {TRUE, FALSE} ELSE {FALSE}) }

\* verify_token(token): the payloads the call may return at second t.
verify_token(token, t) ==
    { IF o.error = "" THEN o.payload ELSE NoPayload : o \in jwt_decode(token, NoAudience, t) }

(***************************************************************************)
(* UserSession.is_expired is utcnow() > expires_at on microsecond stamps:  *)
(* inside the second of expires_at both answers occur.                     *)
(***************************************************************************)
is_expired(row, t) ==
    IF t > row.expires_at THEN {TRUE}
    ELSE IF t = row.expires_at THEN {TRUE, FALSE} ELSE {FALSE}

update_activity(row, t) == [row EXCEPT !.last_activity = t]

(***************************************************************************)
(* AuthenticationService.validate_session: the outcomes of a call at       *)
(* second t, each with the user returned (NoUser for None) and table       *)
(* usersession as the call leaves it.                                      *)
(***************************************************************************)
\* The checks validate_session makes on the payload verify_token returned.
validate_session_payload_sliding(table, accounts, payload, access_token, t) ==
    {[ user |-> NoUser,
       table |-> { IF r.session_token = access_token /\ r.is_active
                   THEN [r EXCEPT !.expires_at = t + DefaultSessionTimeoutMinutes * 60]
                   ELSE r : r \in table } ]}

validate_session_payload(table, accounts, payload, access_token, t) ==
    IF payload = NoPayload THEN {[ user |-> NoUser, table |-> table ]}
    ELSE IF "sub" \notin DOMAIN payload THEN {[ user |-> NoUser, table |-> table ]}
    ELSE IF payload.sub \notin DOMAIN accounts THEN {[ user |-> NoUser, table |-> table ]}
    ELSE IF ~accounts[payload.sub].is_active THEN {[ user |-> NoUser, table |-> table ]}
    ELSE LET found == {r \in table : r.session_token = access_token /\ r.is_active}
         IN  IF found = {} THEN {[ user |-> NoUser, table |-> table ]}
             ELSE LET row == CHOOSE r \in found : TRUE
                  IN  { IF expired
                        THEN [ user |-> NoUser, table |-> table ]
                        ELSE [ user |-> accounts[payload.sub].id,
                               table |-> (table \ {row}) \cup {update_activity(row, t)} ]
                        : expired \in is_expired(row, t) }

validate_session_unverified(table, accounts, access_token, t) ==
    validate_session_payload(table, accounts,
        IF access_token = BadToken THEN NoPayload ELSE access_token, access_token, t)

validate_session(table, accounts, access_token, t) ==
    UNION { validate_session_payload(table, accounts, payload, access_token, t)
            : payload \in verify_token(access_token, t) }

(***************************************************************************)
(* POST /refresh: the responses of a call at second t.                     *)
(***************************************************************************)
Unauthorized(detail) == [ status |-> 401, detail |-> detail ]

refresh_token_any_type(accounts, token, t) ==
    { IF token = BadToken \/ token.sub \notin DOMAIN accounts
      THEN Unauthorized("Invalid refresh token")
      ELSE [ status |-> 200,
             access_token |-> create_access_token(accounts[token.sub].id,
                                                  accounts[token.sub].username, t),
             token_type |-> "bearer",
             expires_in |-> accounts[token.sub].session_timeout_minutes * 60 ]
      : x \in {0} }

refresh_token(accounts, token, t) ==
    { IF payload = NoPayload THEN Unauthorized("Invalid refresh token")
      ELSE IF payload.type # "refresh" THEN Unauthorized("Invalid refresh token")
      ELSE IF "sub" \notin DOMAIN payload THEN Unauthorized("Invalid token payload")
      ELSE IF payload.sub \notin DOMAIN accounts \/ ~accounts[payload.sub].is_active
      THEN Unauthorized("User not found or inactive")
      ELSE [ status |-> 200,
             access_token |-> create_access_token(accounts[payload.sub].id,
                                                  accounts[payload.sub].username, t),
             token_type |-> "bearer",
             expires_in |-> accounts[payload.sub].session_timeout_minutes * 60 ]
      : payload \in verify_token(token, t) }

(***************************************************************************)
(* Sessions in use: sessions are created, presented for validation and     *)
(* for refresh, revoked by logout, by logout of all sessions, by the       *)
(* DELETE /sessions/{id} endpoint and by eviction, and accounts are        *)
(* deactivated by an administrator.  The clock reaches the second at which *)
(* the tokens and sessions of the first second expire, and the next.       *)
(***************************************************************************)
UseInstants == {0, AccessTokenExpireMinutes * 60, AccessTokenExpireMinutes * 60 + 1}

\* The account whose sessions are followed.
UseAccounts == {"alice"}

UseCreateUserSession(u, dev) ==
    /\ Cardinality(sessions) < MaxUseSessions
    /\ CreateUserSession(u, dev)

UseLogoutUser(access_token, dev) ==
    /\ Len(audit) < MaxUseEvents
    /\ LogoutUser(access_token, dev)

UseLogoutAllSessions(user_id, dev) ==
    /\ Len(audit) < MaxUseEvents
    /\ LogoutAllSessions(user_id, dev)

\* DELETE /sessions/{session_id} for the authenticated user current_user.
TerminateSession(session_id, current_user) ==
    /\ LET found == {r \in sessions : r.id = session_id /\ r.user_id = users[current_user].id}
       IN  IF found = {}
           THEN /\ UNCHANGED sessions
                /\ last' = [ op |-> "terminate_session", session_id |-> session_id,
                             user |-> current_user, status |-> 404 ]
           ELSE /\ sessions' = Deactivate(sessions, {r.id : r \in found})
                /\ last' = [ op |-> "terminate_session", session_id |-> session_id,
                             user |-> current_user, status |-> 200 ]
    /\ UNCHANGED <<now, rl, rlExpire, calls, epoch, nops, users, audit, procs, twin>>

\* The admin repository's delete(user_id): a soft delete, is_active = False.
DeactivateUser(user_id) ==
    /\ users' = [users EXCEPT ![user_id].is_active = FALSE]
    /\ last' = [ op |-> "deactivate_user", user |-> user_id, result |-> TRUE ]
    /\ UNCHANGED <<now, rl, rlExpire, calls, epoch, nops, sessions, audit, procs, twin>>

ValidateSession(access_token) ==
    /\ \E o \in validate_session(sessions, users, access_token, now) :
         /\ sessions' = o.table
         /\ last' = [ op |-> "validate_session", token |-> access_token, t |-> now,
                      result |-> o.user ]
    /\ UNCHANGED <<now, rl, rlExpire, calls, epoch, nops, users, audit, procs, twin>>

VerifyToken(token) ==
    /\ \E payload \in verify_token(token, now) :
         last' = [ op |-> "verify_token", token |-> token, t |-> now, result |-> payload ]
    /\ UNCHANGED <<now, rl, rlExpire, calls, epoch, nops, users, sessions, audit, procs, twin>>

RefreshToken(token) ==
    /\ \E response \in refresh_token(users, token, now) :
         last' = [ op |-> "refresh_token", token |-> token, t |-> now, result |-> response ]
    /\ UNCHANGED <<now, rl, rlExpire, calls, epoch, nops, users, sessions, audit, procs, twin>>

TickUse ==
    /\ \E t \in UseInstants : t > now /\ now' = t
    /\ UNCHANGED <<rl, rlExpire, calls, epoch, nops, last, users, sessions, audit, procs, twin>>

\* The tokens a caller of verify_token may hold: those of the sessions and
\* those minted in this second for an account.
MintedNow ==
    {create_access_token(users[u].id, users[u].username, now) : u \in UseAccounts}
        \cup {create_refresh_token(users[u].id, users[u].username, now) : u \in UseAccounts}

SessionIds == 1..MaxUseSessions

NextUse ==
    \/ \E u \in UseAccounts, dev \in Devices : UseCreateUserSession(u, dev)
    \/ \E tok \in KnownTokens, dev \in Devices : UseLogoutUser(tok, dev)
    \/ \E u \in UseAccounts, dev \in Devices : UseLogoutAllSessions(u, dev)
    \/ \E id \in SessionIds, u \in UseAccounts : TerminateSession(id, u)
    \/ \E u \in UseAccounts : DeactivateUser(u)
    \/ \E tok \in KnownTokens : ValidateSession(tok)
    \/ \E tok \in KnownTokens \cup MintedNow : VerifyToken(tok)
    \/ \E tok \in KnownTokens : RefreshToken(tok)
    \/ TickUse

SpecUse == InitSess /\ [][NextUse]_vars

(***************************************************************************)
(* Properties of sessions in use (SpecUse).                                *)
(***************************************************************************)
IsValidateSession == last.op = "validate_session"

\* The rows whose session_token is the token of the last call.
RowsOfToken == {r \in sessions : r.session_token = last.token}

Did(op) == last'.op = op /\ now' = now

\* C12: a session whose is_active is false stays in the table with is_active
\* false (no operation reactivates or replaces it), validate_session with the
\* token of such a session returns None, and logout_user with a token that is
\* the session_token of no session returns False and changes no session.
C12_RevocationPermanent ==
    [][ /\ \A r \in sessions : ~r.is_active => r \in sessions'
        /\ Did("validate_session")
             => ( (\E r \in sessions : r.session_token = last'.token /\ ~r.is_active)
                    => last'.result = NoUser )
        /\ Did("logout_user")
             => ( (\A r \in sessions : r.session_token # last'.token)
                    => last'.result = FALSE /\ sessions' = sessions )
      ]_vars

\* A session revoked by logout_user in an earlier second, presented again.
C12_Witness ==
    /\ IsValidateSession
    /\ last.result = NoUser
    /\ Len(audit) = 1
    /\ audit[1].event_type = "logout"
    /\ audit[1].timestamp < last.t
    /\ \E r \in RowsOfToken : ~r.is_active /\ r.id = audit[1].details.session_id

\* C15: verify_token of a token in the second it was minted returns a payload
\* with the sub and username given and the iss, aud and type claims added;
\* verify_token of a token after its exp returns None.
C15_TokenRoundTrip ==
    (last.op = "verify_token" /\ last.token # BadToken) =>
        /\ last.t = last.token.iat =>
             /\ last.result # NoPayload
             /\ last.result.sub = last.token.sub
             /\ last.result.username = last.token.username
             /\ last.result.iss = "SmartSecurity Cloud"
             /\ last.result.aud = "SmartSecurity Users"
             /\ last.result.type = last.token.type
        /\ last.t > last.token.exp => last.result = NoPayload

C13_LogoutAllDeactivatesOwnSessionsOnce ==
    [][ Did("logout_all_sessions") =>
          LET account == last'.user
              own     == {r \in sessions : r.user_id = account /\ r.is_active}
          IN  /\ sessions' = (sessions \ own) \cup {[r EXCEPT !.is_active = FALSE] : r \in own}
              /\ \A r \in sessions : r.user_id # account => r \in sessions'
              /\ \A r \in sessions' : r.user_id = account => ~r.is_active
              /\ last'.result = Cardinality(own)
              /\ (last.op = "logout_all_sessions" /\ last.user = account)
                    => last'.result = 0 /\ sessions' = sessions
      ]_vars

\* Two calls in a row for one account, the first of which ended a session,
\* while another account keeps an active session.
C13_Witness ==
    /\ last.op = "logout_all_sessions"
    /\ last.result = 0
    /\ Len(audit) = 2
    /\ \A i \in 1..2 : /\ audit[i].event_type = "logout_all_sessions"
                       /\ audit[i].user_id = last.user
    /\ audit[2].details.sessions_terminated >= 1
    /\ audit[1].details.sessions_terminated = 0
    /\ \E r \in sessions : r.user_id # last.user /\ r.is_active
    /\ \E r \in sessions : r.user_id = last.user /\ ~r.is_active

(***************************************************************************)
(* Passwords.  validate_password_strength works on the characters of the   *)
(* password; PasswordFacts gives, for the passwords of the model, what its *)
(* length test and its regular expressions find.                           *)
(***************************************************************************)
ChangePasswords == {"Str0ng!Passw0rd", "Fr3sh!Pa55phrase", "password"}

PasswordFacts(password) ==
    CASE password = "Str0ng!Passw0rd" ->
           [ length |-> 15, has_upper |-> TRUE, has_lower |-> TRUE, has_digit |-> TRUE,
             has_special |-> TRUE, repeated |-> FALSE, sequential_letters |-> FALSE,
             sequential_numbers |-> FALSE, keyboard |-> FALSE ]
      [] password = "Fr3sh!Pa55phrase" ->
           [ length |-> 16, has_upper |-> TRUE, has_lower |-> TRUE, has_digit |-> TRUE,
             has_special |-> TRUE, repeated |-> FALSE, sequential_letters |-> FALSE,
             sequential_numbers |-> FALSE, keyboard |-> FALSE ]
      [] password = "password" ->
           [ length |-> 8, has_upper |-> FALSE, has_lower |-> TRUE, has_digit |-> FALSE,
             has_special |-> FALSE, repeated |-> FALSE, sequential_letters |-> FALSE,
             sequential_numbers |-> FALSE, keyboard |-> FALSE ]

When(condition, text) == IF condition THEN <<text>> ELSE << >>

\* validate_password_strength on what its tests find in the password: f as
\* PasswordFacts gives it, common for password.lower() in COMMON_PASSWORDS.
\* score is kept in half points (the code adds 0.5 for a length of 12..15).
validate_password_strength_of(f, common) ==
    LET issues ==
            When(f.length < 12, "Password must be at least 12 characters long")
            \o When(common, "Password is too common")
            \o When(~f.has_upper, "Include at least one uppercase letter")
            \o When(~f.has_lower, "Include at least one lowercase letter")
            \o When(~f.has_digit, "Include at least one number")
            \o When(~f.has_special, "Include at least one special character")
            \o When(f.repeated, "Avoid repeated characters")
            \o When(f.sequential_letters, "Avoid sequential characters")
            \o When(f.sequential_numbers, "Avoid sequential numbers")
            \o When(f.keyboard, "Avoid keyboard patterns")
        suggestions ==
            When(common, "Choose a more unique password")
            \o When(~f.has_upper, "Add uppercase letters (A-Z)")
            \o When(~f.has_lower, "Add lowercase letters (a-z)")
            \o When(~f.has_digit, "Add numbers (0-9)")
            \o When(~f.has_special, "Add special characters (!@#$%^&*)")
            \o When(f.repeated, "Don't repeat the same character more than twice")
            \o When(f.sequential_letters, "Don't use sequential letters (abc, def, etc.)")
            \o When(f.sequential_numbers, "Don't use sequential numbers (123, 456, etc.)")
            \o When(f.keyboard, "Don't use keyboard patterns (qwerty, asdfgh, etc.)")
        halves ==
            (IF f.length < 12 THEN 0 ELSE IF f.length >= 16 THEN 2 ELSE 1)
            + (IF f.has_upper THEN 2 ELSE 0) + (IF f.has_lower THEN 2 ELSE 0)
            + (IF f.has_digit THEN 2 ELSE 0) + (IF f.has_special THEN 2 ELSE 0)
    IN  [ valid |-> issues = << >> /\ halves >= 6,
          score |-> halves \div 2,
          issues |-> issues,
          suggestions |-> suggestions,
          strength |-> IF halves < 4 THEN "weak" ELSE IF halves < 6 THEN "medium"
                       ELSE IF halves < 8 THEN "strong" ELSE "very_strong" ]

\* validate_password_strength on a password of the model.
validate_password_strength(password) ==
    validate_password_strength_of(PasswordFacts(password),
                                  lower(password) \in COMMON_PASSWORDS)

(***************************************************************************)
(* hash_password is pwd_context.hash (Argon2): every call draws a random   *)
(* salt, so the hash is a function of the password and the salt drawn.     *)
(* The model draws the salt from a small set, so that two calls drawing    *)
(* the same salt occur as well as calls drawing different ones.            *)
(***************************************************************************)
Salts == {0, 1, 2}

hash_password(password) == {[ pw |-> password, salt |-> s ] : s \in Salts}

PasswordHistoryKeep == 5

\* User.add_password_to_history(hashed_password, max_history=5)
add_password_to_history_unrecorded(user, hashed_password) == user

add_password_to_history(user, hashed_password) ==
    IF \E i \in 1..Len(user.password_history) : user.password_history[i] = hashed_password
    THEN user
    ELSE LET history == Append(user.password_history, hashed_password)
         IN  [user EXCEPT !.password_history =
                 IF Len(history) > PasswordHistoryKeep
                 THEN SubSeq(history, Len(history) - PasswordHistoryKeep + 1, Len(history))
                 ELSE history]

\* User.is_password_in_history(hashed_password): membership of the hash string.
is_password_in_history(user, hashed_password) ==
    \E i \in 1..Len(user.password_history) : user.password_history[i] = hashed_password

(***************************************************************************)
(* Redis failures.  get_redis_client returns None when Redis cannot be     *)
(* reached (the services are then built on None and the first Redis call   *)
(* raises AttributeError); a command on a live client raises a RedisError  *)
(* when the connection fails or times out, and the server may or may not   *)
(* have applied it.                                                        *)
(***************************************************************************)
Faults == {"none", "no_client", "rate_limit_store", "audit_store"}

Raised(exception) == [ raised |-> exception ]

IsRaised(result) == "raised" \in DOMAIN result

\* SecurityAuditor.log_security_event under a fault: the lists it may leave
\* and the exception it raises ("" when it returns).  It catches nothing.
audit_write(log, event, fault) ==
    CASE fault = "no_client" -> {[ audit |-> log, raised |-> "AttributeError" ]}
      [] fault = "audit_store" ->
           {[ audit |-> l, raised |-> "RedisError" ]
              : l \in {log, <<event>> \o log, log_security_event(log, event)}}
      [] OTHER -> {[ audit |-> log_security_event(log, event), raised |-> "" ]}

(***************************************************************************)
(* AuthenticationService.change_password: the outcomes of a call at second *)
(* t, each with the account row and the audit list as the call leaves them *)
(* and the dict it returns, or the exception that leaves it.               *)
(***************************************************************************)
change_password(user, log, fault, current_password, new_password, ip_address, user_agent, t) ==
    LET Rejected(reason_details, severity, result) ==
            { [ user |-> user, audit |-> w.audit,
                result |-> IF w.raised = "" THEN result ELSE Raised(w.raised) ]
              : w \in audit_write(log,
                    SecurityEvent("password_change_failed", user.id, ip_address, user_agent,
                                  FALSE, reason_details, severity, t), fault) }
        password_validation == validate_password_strength(new_password)
    IN  IF ~verify_password(current_password, user.hashed_password)
        THEN Rejected([reason |-> "invalid_current_password"], "medium",
                      [ success |-> FALSE, error |-> "Current password is incorrect" ])
        ELSE IF ~password_validation.valid
        THEN Rejected([reason |-> "weak_password", issues |-> password_validation.issues],
                      "medium",
                      [ success |-> FALSE,
                        error |-> "Password does not meet security requirements",
                        issues |-> password_validation.issues,
                        suggestions |-> password_validation.suggestions ])
        ELSE UNION {
               IF is_password_in_history(user, new_password_hash)
               THEN Rejected([reason |-> "password_in_history"], "medium",
                             [ success |-> FALSE,
                               error |-> "Password has been used recently. Please choose a different password." ])
               ELSE IF check_password_breach(new_password)
               THEN Rejected([reason |-> "password_breach_detected"], "high",
                             [ success |-> FALSE,
                               error |-> "Password has been compromised. Please choose a different password." ])
               ELSE LET changed == add_password_to_history(
                                     [user EXCEPT !.hashed_password = new_password_hash,
                                                  !.password_changed_at = t],
                                     user.hashed_password)
                    IN  { [ user |-> changed, audit |-> w.audit,
                            result |-> IF w.raised = ""
                                       THEN [ success |-> TRUE,
                                              message |-> "Password changed successfully" ]
                                       ELSE Raised(w.raised) ]
                          : w \in audit_write(log,
                                SecurityEvent("password_change_success", user.id, ip_address,
                                              user_agent, TRUE,
                                              [password_strength |-> password_validation.strength],
                                              "medium", t), fault) }
               : new_password_hash \in hash_password(new_password) }

(***************************************************************************)
(* authenticate_user with Redis failing.  With no client the first Redis   *)
(* call, self.redis.pipeline() in check_rate_limit, raises; with the rate  *)
(* limiter's store failing pipe.execute() raises, the MULTI/EXEC block     *)
(* applied or not; with the audit store failing the call runs to its       *)
(* log_security_event, after its commits, and that call raises.            *)
(* authenticate_user catches no exception.                                 *)
(***************************************************************************)
authenticate_user_fail_open(w, fault, username, password, ip_address, user_agent, t) ==
    authenticate_user(w, username, password, ip_address, user_agent, t)

authenticate_user_with_faults(w, fault, username, password, ip_address, user_agent, t) ==
    LET rate_limit_key == "login:" \o sanitize_input(ip_address)
        fault_free == authenticate_user(w, username, password, ip_address, user_agent, t)
    IN  CASE fault = "no_client" ->
               {[ world |-> w, user |-> NoUser, recorded |-> 0,
                  result |-> Raised("AttributeError") ]}
          [] fault = "rate_limit_store" ->
               {[ world |-> w, user |-> NoUser, recorded |-> 0,
                  result |-> Raised("RedisError") ]}
               \cup
               { LET r == check_rate_limit(Stored(w.rl[rate_limit_key], gone), t,
                                           MaxAttempts, WindowSeconds)
                 IN  [ world |-> [w EXCEPT !.rl[rate_limit_key] = r.set,
                                           !.rlExpire[rate_limit_key] = r.expire],
                       user |-> NoUser, recorded |-> 0,
                       result |-> Raised("RedisError") ]
                 : gone \in KeyGone(w.rlExpire[rate_limit_key], t) }
          [] fault = "audit_store" ->
               UNION { { [ world |-> [o.world EXCEPT !.audit = a.audit],
                           user |-> NoUser, recorded |-> o.recorded,
                           result |-> Raised(a.raised) ]
                         : a \in audit_write(w.audit, o.world.audit[1], fault) }
                       : o \in fault_free }
          [] OTHER -> fault_free

(***************************************************************************)
(* AuthenticationService.create_user_session on table usersession: the     *)
(* table it may leave, the row it builds and the exception of its INSERT.  *)
(***************************************************************************)
create_user_session(table, user, dev, t) ==
    LET active == ActiveSessions(table, user.id)
        over   == OverLimit(active, user)
    IN  { LET evicted == IF over THEN {oldest.id} ELSE {}
              kept    == Deactivate(table, evicted)
              row     == UserSession(NewId(kept), user, dev, t)
              ok      == UniqueOk(kept, row)
          IN  [ table |-> IF ok THEN kept \cup {row} ELSE kept,
                row |-> row,
                raised |-> IF ok THEN "" ELSE "IntegrityError" ]
          : oldest \in (IF over THEN OldestOf(active) ELSE {NoOp}) }

(***************************************************************************)
(* The service operations with Redis up or failing, each request run to    *)
(* its end before the next: POST /login (authenticate_user, then           *)
(* create_user_session), logout_user, logout_all_sessions and              *)
(* change_password.  The account alice starts as registered, after one     *)
(* password change, or with a common password; the key of ip1 starts with  *)
(* or without earlier attempts; alice starts with or without a session.    *)
(***************************************************************************)
OpsInstants == {T0, T0 + 1}

\* alice after a change from "Str0ng!Passw0rd" to "Fr3sh!Pa55phrase".
Rotated ==
    [Registered("alice") EXCEPT
        !.hashed_password = [pw |-> "Fr3sh!Pa55phrase", salt |-> 1],
        !.password_changed_at = T0 - 100,
        !.password_history = <<[pw |-> "Str0ng!Passw0rd", salt |-> 0]>>]

\* alice with a common password, two failed logins and a lockout that is over.
CompromisedAfterFailures == [AfterFailures(2) EXCEPT !.hashed_password.pw = "password"]

OpsAccounts ==
    {Registered("alice"), Rotated, WeakPassword, Deactivated, CompromisedAfterFailures}

InitOps ==
    /\ now = T0
    /\ \E prior \in {{}, EarlierAttempts} :
         /\ rl = [k \in Keys |-> IF k = "login:ip1" THEN prior ELSE {}]
         /\ rlExpire = [k \in Keys |->
                          IF k = "login:ip1" /\ prior # {}
                          THEN T0 - 1 + WindowSeconds ELSE 0]
    /\ calls = << >>
    /\ epoch = << >>
    /\ nops = 0
    /\ last = NoOp
    /\ \E account \in OpsAccounts :
         /\ users = [u \in Usernames |-> IF u = "alice" THEN account ELSE Registered(u)]
         /\ \E dev \in Devices :
              sessions \in {{}, {UserSession(1, account, dev, T0 - 60)}}
    /\ audit = << >>
    /\ procs = << >>
    /\ twin = << >>

\* POST /login
LoginRequest(fault, username, password, dev) ==
    /\ nops < MaxOps
    /\ \E o \in authenticate_user_with_faults(World, fault, username, password,
                                              dev.ip, dev.ua, now) :
         /\ rl' = o.world.rl
         /\ rlExpire' = o.world.rlExpire
         /\ audit' = o.world.audit
         /\ IF IsRaised(o.result) \/ o.user = NoUser
            THEN /\ users' = o.world.users
                 /\ UNCHANGED sessions
                 /\ last' = [ op |-> "login", fault |-> fault, username |-> username,
                              password |-> password, dev |-> dev, t |-> now,
                              raised |-> IF IsRaised(o.result) THEN o.result.raised ELSE "",
                              result |-> o.result,
                              status |-> IF IsRaised(o.result) THEN 500
                                         ELSE IF o.result.rate_limited THEN 429 ELSE 401 ]
            ELSE \E c \in create_user_session(sessions, o.world.users[o.user], dev, now) :
                 /\ sessions' = c.table
                 /\ users' = IF c.raised = ""
                      THEN [o.world.users EXCEPT ![o.user].trusted_devices =
                              add_trusted_device(@, c.row.device_fingerprint, now)]
                      ELSE o.world.users
                 /\ last' = [ op |-> "login", fault |-> fault, username |-> username,
                              password |-> password, dev |-> dev, t |-> now,
                              raised |-> c.raised, result |-> o.result,
                              status |-> IF c.raised = "" THEN 200 ELSE 500 ]
    /\ nops' = nops + 1
    /\ UNCHANGED <<now, calls, epoch, procs, twin>>

\* AuthenticationService.logout_user
LogoutUserRequest(fault, access_token, dev) ==
    /\ nops < MaxOps
    /\ LET found == {r \in sessions : r.session_token = access_token}
       IN  IF found = {}
           THEN /\ UNCHANGED <<sessions, audit>>
                /\ last' = [ op |-> "logout_user", fault |-> fault, token |-> access_token,
                             dev |-> dev, t |-> now, raised |-> "", result |-> FALSE ]
           ELSE \E w \in audit_write(audit,
                           SecurityEvent("logout", (CHOOSE r \in found : TRUE).user_id,
                                         dev.ip, dev.ua, TRUE,
                                         [session_id |-> (CHOOSE r \in found : TRUE).id],
                                         "low", now), fault) :
                /\ sessions' = Deactivate(sessions, {r.id : r \in found})
                /\ audit' = w.audit
                /\ last' = [ op |-> "logout_user", fault |-> fault, token |-> access_token,
                             dev |-> dev, t |-> now, raised |-> w.raised,
                             result |-> IF w.raised = "" THEN TRUE ELSE FALSE ]
    /\ nops' = nops + 1
    /\ UNCHANGED <<now, rl, rlExpire, calls, epoch, users, procs, twin>>

\* AuthenticationService.logout_all_sessions
LogoutAllSessionsRequest(fault, user_id, dev) ==
    /\ nops < MaxOps
    /\ LET active == ActiveSessions(sessions, user_id)
       IN  \E w \in audit_write(audit,
                      SecurityEvent("logout_all_sessions", user_id, dev.ip, dev.ua, TRUE,
                                    [sessions_terminated |-> Cardinality(active)],
                                    "medium", now), fault) :
             /\ sessions' = Deactivate(sessions, {r.id : r \in active})
             /\ audit' = w.audit
             /\ last' = [ op |-> "logout_all_sessions", fault |-> fault, user |-> user_id,
                          dev |-> dev, t |-> now, raised |-> w.raised,
                          result |-> IF w.raised = "" THEN Cardinality(active) ELSE NULL ]
    /\ nops' = nops + 1
    /\ UNCHANGED <<now, rl, rlExpire, calls, epoch, users, procs, twin>>

\* POST /change-password of the authenticated account user_id.
ChangePasswordRequest(fault, user_id, current_password, new_password, dev) ==
    /\ nops < MaxOps
    /\ \E o \in change_password(users[user_id], audit, fault, current_password,
                                new_password, dev.ip, dev.ua, now) :
         /\ users' = [users EXCEPT ![user_id] = o.user]
         /\ audit' = o.audit
         /\ last' = [ op |-> "change_password", fault |-> fault, user |-> user_id,
                      current_password |-> current_password,
                      new_password |-> new_password, dev |-> dev, t |-> now,
                      raised |-> IF IsRaised(o.result) THEN o.result.raised ELSE "",
                      result |-> o.result ]
    /\ nops' = nops + 1
    /\ UNCHANGED <<now, rl, rlExpire, calls, epoch, sessions, procs, twin>>

TickOps ==
    /\ \E t \in OpsInstants : t > now /\ now' = t
    /\ UNCHANGED <<rl, rlExpire, calls, epoch, nops, last, users, sessions, audit, procs, twin>>

OpsNames == {"alice", "mallory"}
OpsAuditFaults == {"none", "audit_store"}

NextOps ==
    \/ \E fault \in Faults, username \in OpsNames, password \in Passwords, dev \in Devices :
         LoginRequest(fault, username, password, dev)
    \/ \E fault \in OpsAuditFaults, tok \in KnownTokens, dev \in Devices :
         LogoutUserRequest(fault, tok, dev)
    \/ \E fault \in OpsAuditFaults, u \in UseAccounts, dev \in Devices :
         LogoutAllSessionsRequest(fault, u, dev)
    \/ \E fault \in Faults \ {"rate_limit_store"}, u \in UseAccounts :
         \E current \in {users[u].hashed_password.pw, "password"},
            new \in ChangePasswords, dev \in Devices :
           ChangePasswordRequest(fault, u, current, new, dev)
    \/ TickOps

SpecOps == InitOps /\ [][NextOps]_vars

(***************************************************************************)
(* Properties of the service operations with Redis up or failing (SpecOps).*)
(***************************************************************************)
\* A step that serves one request of the operation op.
Served(op) == nops' = nops + 1 /\ last'.op = op

HistoryReuseError ==
    [ success |-> FALSE,
      error |-> "Password has been used recently. Please choose a different password." ]

\* C14: a change_password call, made with the right current password and
\* Redis up, whose new password meets the strength requirements and is the
\* password of a hash in password_history, returns the history-reuse error
\* and leaves hashed_password as it was.
C14_HistoryReuseRejected ==
    [][ ( /\ Served("change_password")
          /\ last'.fault = "none"
          /\ verify_password(last'.current_password, users[last'.user].hashed_password)
          /\ validate_password_strength(last'.new_password).valid
          /\ \E i \in 1..Len(users[last'.user].password_history) :
               users[last'.user].password_history[i].pw = last'.new_password )
        => /\ last'.result = HistoryReuseError
           /\ users'[last'.user].hashed_password = users[last'.user].hashed_password
      ]_vars

\* The faults of the rate limiter's backing store.
RateLimiterDown == {"no_client", "rate_limit_store"}

C18_AuditFailureNeverAborts ==
    [][ (nops' = nops + 1 /\ last'.fault = "audit_store")
        => /\ last'.raised = ""
           /\ CASE last'.op = "login" ->
                     \E o \in authenticate_user(World, last'.username, last'.password,
                                                last'.dev.ip, last'.dev.ua, now) :
                        /\ last'.result = o.result
                        /\ rl' = o.world.rl
                [] last'.op = "logout_user" ->
                     LET found == {r \in sessions : r.session_token = last'.token}
                     IN  /\ last'.result = (found # {})
                         /\ sessions' = (sessions \ found)
                                \cup {[r EXCEPT !.is_active = FALSE] : r \in found}
                [] last'.op = "logout_all_sessions" ->
                     LET own == {r \in sessions : r.user_id = last'.user /\ r.is_active}
                     IN  /\ last'.result = Cardinality(own)
                         /\ sessions' = (sessions \ own)
                                \cup {[r EXCEPT !.is_active = FALSE] : r \in own}
                [] last'.op = "change_password" ->
                     \E o \in change_password(users[last'.user], audit, "none",
                                 last'.current_password, last'.new_password,
                                 last'.dev.ip, last'.dev.ua, now) :
                        /\ last'.result = o.result
                        /\ users'[last'.user] = o.user
      ]_vars

\* The calls that end in a rejection: a login or a change_password whose
\* result has success false, a logout_user that returns False.
IsRejection(call) ==
    CASE call.op \in {"login", "change_password"} ->
           IF IsRaised(call.result) THEN FALSE ELSE ~call.result.success
      [] call.op = "logout_user" -> call.raised = "" /\ call.result = FALSE
      [] OTHER -> FALSE

\* C19: every rejected call of authenticate_user, change_password and
\* logout_user, Redis up, writes exactly one audit event.
C19_OneAuditEventPerRejection ==
    [][ (nops' = nops + 1 /\ last'.fault = "none" /\ IsRejection(last'))
        => Len(audit') = Len(audit) + 1
      ]_vars

(***************************************************************************)
(* The audit list security_events on its own.  The list starts empty or    *)
(* one event short of the 10,000 that LTRIM keeps.  The id the code draws  *)
(* for each event (secrets.token_hex) is details.serial here, so that any  *)
(* two events of the list differ.                                          *)
(***************************************************************************)
AuditInstants == {0, 1}
AuditEventTypes == {"login_success", "login_failed", "logout"}

\* Earlier events, newest first: serial AuditKeep - 1 down to serial 1.
EarlierEvents ==
    [i \in 1..(AuditKeep - 1) |->
        SecurityEvent("login_success", "alice", "ip1", "ua1", TRUE,
                      [serial |-> AuditKeep - i], "low", 0)]

InitAudit ==
    /\ now = 0
    /\ rl = [k \in Keys |-> {}]
    /\ rlExpire = [k \in Keys |-> 0]
    /\ calls = << >>
    /\ epoch = << >>
    /\ nops = 0
    /\ last = NoOp
    /\ users = [u \in Usernames |-> User(u)]
    /\ sessions = {}
    /\ audit \in {<< >>, EarlierEvents}
    /\ procs = << >>
    /\ twin = << >>

LogSecurityEvent(event_type, user_id, dev) ==
    /\ nops < MaxAuditWrites
    /\ LET event == SecurityEvent(event_type, user_id, dev.ip, dev.ua,
                                  event_type # "login_failed",
                                  [serial |-> AuditKeep + nops], "low", now)
       IN  /\ audit' = log_security_event(audit, event)
           /\ last' = [ op |-> "log_security_event", event |-> event ]
    /\ nops' = nops + 1
    /\ UNCHANGED <<now, rl, rlExpire, calls, epoch, users, sessions, procs, twin>>

TickAudit ==
    /\ \E t \in AuditInstants : t > now /\ now' = t
    /\ UNCHANGED <<rl, rlExpire, calls, epoch, nops, last, users, sessions, audit, procs, twin>>

NextAudit ==
    \/ \E event_type \in AuditEventTypes, u \in Usernames, dev \in Devices :
         LogSecurityEvent(event_type, u, dev)
    \/ TickAudit

SpecAudit == InitAudit /\ [][NextAudit]_vars

MinPasswordLength == 12

\* Characters a string needs to show the patterns of f side by side.
PatternChars(f) ==
    (IF f.repeated THEN 3 ELSE 0) + (IF f.sequential_letters THEN 3 ELSE 0)
    + (IF f.sequential_numbers THEN 3 ELSE 0) + (IF f.keyboard THEN 6 ELSE 0)

generate_secure_password(length) ==
    LET n == IF length < MinPasswordLength THEN MinPasswordLength ELSE length
        remaining_length == n - 4
    IN  { f \in [ length : {n}, has_upper : {TRUE}, has_lower : {TRUE},
                  has_digit : {TRUE}, has_special : {TRUE}, repeated : BOOLEAN,
                  sequential_letters : BOOLEAN, sequential_numbers : BOOLEAN,
                  keyboard : BOOLEAN ] :
            PatternChars(f) <= remaining_length }

(***************************************************************************)
(* The password policy on its own: validate_password_strength applied to   *)
(* passwords of every length around its thresholds and every mix of        *)
(* character classes and patterns, and to the passwords                    *)
(* generate_secure_password returns for a requested length.                *)
(***************************************************************************)
PolicyLengths == {0, 8, 11, 12, 15, 16, 20, 128, 129}
RequestedLengths == {0, 8, 12, 16, 20}

\* Characters a string needs to show the classes of f.
ClassChars(f) ==
    (IF f.has_upper THEN 1 ELSE 0) + (IF f.has_lower THEN 1 ELSE 0)
    + (IF f.has_digit THEN 1 ELSE 0) + (IF f.has_special THEN 1 ELSE 0)

\* What the tests of validate_password_strength can find in one string.
PasswordInputs ==
    { f \in [ length : PolicyLengths, has_upper : BOOLEAN, has_lower : BOOLEAN,
              has_digit : BOOLEAN, has_special : BOOLEAN, repeated : BOOLEAN,
              sequential_letters : BOOLEAN, sequential_numbers : BOOLEAN,
              keyboard : BOOLEAN ] :
        /\ ClassChars(f) + PatternChars(f) <= f.length
        /\ (f.sequential_letters \/ f.keyboard) => (f.has_upper \/ f.has_lower)
        /\ f.sequential_numbers => f.has_digit }

InitPolicy ==
    /\ now = 0
    /\ rl = [k \in Keys |-> {}]
    /\ rlExpire = [k \in Keys |-> 0]
    /\ calls = << >>
    /\ epoch = << >>
    /\ nops = 0
    /\ last \in { [ op |-> "password", facts |-> f, common |-> FALSE, length |-> NULL ]
                  : f \in PasswordInputs }
            \cup { [ op |-> "password", facts |-> PasswordFacts("password"),
                     common |-> TRUE, length |-> NULL ] }
            \cup { [ op |-> "length", length |-> n ] : n \in RequestedLengths }
    /\ users = [u \in Usernames |-> User(u)]
    /\ sessions = {}
    /\ audit = << >>
    /\ procs = << >>
    /\ twin = << >>

GenerateSecurePassword ==
    /\ last.op = "length"
    /\ \E f \in generate_secure_password(last.length) :
         last' = [ op |-> "generate_secure_password", facts |-> f, common |-> FALSE,
                   length |-> last.length ]
    /\ UNCHANGED <<now, rl, rlExpire, calls, epoch, nops, users, sessions, audit, procs, twin>>

ValidatePasswordStrength ==
    /\ last.op \in {"password", "generate_secure_password"}
    /\ last' = [ op |-> "validate_password_strength", facts |-> last.facts,
                 common |-> last.common,
                 generated |-> last.op = "generate_secure_password",
                 length |-> last.length,
                 result |-> validate_password_strength_of(last.facts, last.common) ]
    /\ UNCHANGED <<now, rl, rlExpire, calls, epoch, nops, users, sessions, audit, procs, twin>>

NextPolicy ==
    \/ GenerateSecurePassword
    \/ ValidatePasswordStrength

SpecPolicy == InitPolicy /\ [][NextPolicy]_vars

(***************************************************************************)
(* Properties of the password policy (SpecPolicy).                         *)
(***************************************************************************)
MaxPasswordLength == 128

IsValidated == last.op = "validate_password_strength"

LengthIssues ==
    { "Password must be at least 12 characters long",
      "Password must be no more than 128 characters long" }

\* C21: every password longer than 128 characters and every password shorter
\* than 12 characters gets valid = false and a length issue.
C21_LengthBoundsEnforced ==
    (IsValidated /\ (last.facts.length > MaxPasswordLength
                     \/ last.facts.length < MinPasswordLength))
        => /\ ~last.result.valid
           /\ \E i \in 1..Len(last.result.issues) : last.result.issues[i] \in LengthIssues

\* C22: the score validate_password_strength returns is an integer of 0..4.
C22_ScoreWithinZeroToFour ==
    IsValidated => last.result.score \in 0..4

\* C23: generate_secure_password(n) returns a password of length max(n, 12)
\* with an uppercase letter, a lowercase letter, a digit and a symbol, and
\* validate_password_strength accepts it with valid = true and score >= 3.
C23_GeneratedPasswordAccepted ==
    (IsValidated /\ last.generated)
        => /\ last.facts.length = Max(last.length, MinPasswordLength)
           /\ last.facts.has_upper /\ last.facts.has_lower
           /\ last.facts.has_digit /\ last.facts.has_special
           /\ last.result.valid
           /\ last.result.score >= 3

(***************************************************************************)
(* Entries recorded by the rate limiter (SpecRL).                          *)
(***************************************************************************)
\* The entries of a key that a check at second t does not evict: those with a
\* score above t - 900.
InWindow(set, t) == {score \in set : score > t - WindowSeconds}

\* C24: every check_rate_limit call and every increment_failed_attempt call
\* leaves the key with one more entry inside its window than it had before
\* the call, also when other calls on the key fell in the same second.
C24_EveryCallRecordsOneEntry ==
    [][ nops' = nops + 1
        => Cardinality(InWindow(rl'[last'.key], now))
             = Cardinality(InWindow(rl[last'.key], now)) + 1
      ]_vars

(***************************************************************************)
(* Expiry and use of sessions (SpecUse).                                   *)
(***************************************************************************)
\* C25: a validate_session call with the token of an active session that is
\* past its expires_at returns None and leaves that session with is_active
\* false.
C25_ExpiryDetectionDeactivates ==
    [][ Did("validate_session") =>
          \A r \in sessions :
              (r.session_token = last'.token /\ r.is_active /\ now > r.expires_at)
                 => /\ last'.result = NoUser
                    /\ \E q \in sessions' : q.id = r.id /\ ~q.is_active
      ]_vars

CurrentPasswordError == "Current password is incorrect"
StrengthError == "Password does not meet security requirements"
CompromisedError == "Password has been compromised. Please choose a different password."

\* C26: a change_password call that returns a failure leaves the account row
\* (hashed_password, password_changed_at, password_history) as it was, and
\* the failure is that of the first failing check in the order current
\* password, strength, history, compromised; a call that returns success has
\* set hashed_password to a hash of the new password, password_changed_at to
\* the time of the call, and has appended the previous hash to
\* password_history (kept to its last five entries).
C26_RejectedChangeKeepsAccount ==
    [][ (Served("change_password") /\ ~IsRaised(last'.result)) =>
          LET call    == last'
              before  == users[call.user]
              after   == users'[call.user]
              history == before.password_history
              appended == IF \E i \in 1..Len(history) : history[i] = before.hashed_password
                          THEN history
                          ELSE Append(history, before.hashed_password)
          IN  /\ ~call.result.success =>
                    /\ after = before
                    /\ IF ~verify_password(call.current_password, before.hashed_password)
                       THEN call.result.error = CurrentPasswordError
                       ELSE IF ~validate_password_strength(call.new_password).valid
                       THEN call.result.error = StrengthError
                       ELSE IF call.result.error = CompromisedError
                       THEN check_password_breach(call.new_password)
                       ELSE /\ call.result = HistoryReuseError
                            /\ \E i \in 1..Len(history) :
                                  verify_password(call.new_password, history[i])
              /\ call.result.success =>
                    /\ verify_password(call.current_password, before.hashed_password)
                    /\ verify_password(call.new_password, after.hashed_password)
                    /\ after.password_changed_at = now
                    /\ after.password_history =
                          IF Len(appended) > PasswordHistoryKeep
                          THEN SubSeq(appended, Len(appended) - PasswordHistoryKeep + 1,
                                      Len(appended))
                          ELSE appended
                    /\ after.password_history[Len(after.password_history)]
                          = before.hashed_password
      ]_vars

\* A rejected change (weak new password) followed by a successful one: the
\* account holds a hash of the new password and its history ends with the
\* hash it had.
C26_Witness ==
    /\ last.op = "change_password"
    /\ last.fault = "none"
    /\ ~IsRaised(last.result)
    /\ last.result.success
    /\ Len(audit) = 2
    /\ audit[2].event_type = "password_change_failed"
    /\ audit[2].details.reason = "weak_password"
    /\ audit[1].event_type = "password_change_success"
    /\ verify_password(last.new_password, users[last.user].hashed_password)
    /\ Len(users[last.user].password_history) >= 1
    /\ verify_password(last.current_password,
          users[last.user].password_history[Len(users[last.user].password_history)])
    /\ users[last.user].password_changed_at = last.t

(***************************************************************************)
(* The end of a lockout (SpecAuth).                                        *)
(***************************************************************************)
\* C27: a call on an active account that the rate limiter lets pass is
\* refused as locked when it is made before locked_until and is not refused
\* as locked when locked_until is unset or has passed; after locked_until a
\* correct password of an otherwise usable account logs in, with locked_until
\* and failed_login_attempts still as the last failure left them.  (Within
\* the second of locked_until the answer depends on the microseconds.)
C27_LazyUnlock ==
    (IsLogin /\ ~IsRateLimited(last.result) /\ last.known /\ last.before.is_active) =>
        /\ WasLocked => /\ IsBlocked(last.result, "wait")
                        /\ last.user = NoUser
        /\ WasUnlocked => ~IsBlocked(last.result, "wait")
        /\ ( /\ WasUnlocked /\ WasPasswordCurrent /\ ~WasMfaPending
             /\ ~WasWrongPassword /\ ~check_password_breach(last.password) )
              => /\ last.result.success
                 /\ last.user = last.before.id

\* A wrong password at T0 locked the account until T0 + 300; nothing wrote
\* the account since, and the correct password at T0 + 301 logged in.
C27_Witness ==
    /\ IsLogin
    /\ last.known
    /\ last.before.locked_until = T0 + 300
    /\ last.before.failed_login_attempts = 1
    /\ last.t = T0 + 301
    /\ last.result.success
    /\ Len(audit) = 2
    /\ audit[2].event_type = "login_failed"
    /\ audit[2].timestamp = T0

\* C28: a login request that is answered with a rejection other than the
\* password mismatch of a known account (rate-limited, unknown user,
\* deactivated, locked, expired, compromised password) leaves every account
\* row, so failed_login_attempts, locked_until and last_login, as it was and
\* creates no session; a request for a deactivated account or for an account
\* that is locked at the time leaves the row as it was whatever the password,
\* so a lockout is never extended while it lasts.
C28_OtherRejectionsKeepAccount ==
    [][ (Served("login") /\ last'.raised = "") =>
          LET call  == last'
              name  == sanitize_input(call.username)
              known == name \in DOMAIN users
          IN  /\ ( /\ ~call.result.success
                   /\ ~(known /\ call.result = invalid_password_result) )
                    => /\ users' = users
                       /\ sessions' = sessions
              /\ ( /\ known
                   /\ \/ ~users[name].is_active
                      \/ /\ users[name].locked_until # NULL
                         /\ now < users[name].locked_until )
                    => /\ ~call.result.success
                       /\ users'[name] = users[name]
                       /\ sessions' = sessions
      ]_vars

\* The correct but common password of an account with two failures on
\* record: refused as compromised, the counter and the old lockout stamp
\* still there, no session.
C28_Witness ==
    /\ last.op = "login"
    /\ last.raised = ""
    /\ last.username = "alice"
    /\ verify_password(last.password, users["alice"].hashed_password)
    /\ last.status = 401
    /\ last.result.error = "Password has been compromised. Please change your password."
    /\ users["alice"].failed_login_attempts = 2
    /\ users["alice"].locked_until = T0 - 500
    /\ users["alice"].last_login = NULL
    /\ sessions = {}

====
